---- MODULE Spec2Model ----
(***************************************************************************)
(* Model of src/app.py: the shunt-sound checker.                           *)
(*                                                                         *)
(* One analysis request of main() is a state machine over the steps of the *)
(* button handler (get_api_key, load_audio_data, perform_fft_analysis,     *)
(* plot_spectrum, the band classification, plot_spectrogram, the AI tab).  *)
(* The pure functions are also exercised on their own, over wider inputs:  *)
(*   Spec      the whole request of main()                                 *)
(*   SpecLoad  load_audio_data                                             *)
(*   SpecFFT   perform_fft_analysis                                        *)
(*   SpecBand  the band ratios and the verdict of main()                   *)
(*                                                                         *)
(* Numbers.  The code computes in IEEE floats; the model computes in exact *)
(* rationals, so float rounding (astype(np.float32), the FFT's round-off)  *)
(* is outside the model.  TLC's integers are 32 bits wide, so a rational   *)
(* is held as a mixed number  int + num/den  (0 <= num < den, reduced):    *)
(* every value between -2^31 and 2^31 with a small denominator fits, which *)
(* num/den alone would not.  For the same reason the int32 samples drawn   *)
(* are multiples of 65536 (both ends of the int32 range included): then    *)
(* x / 2147483648 has a denominator of at most 32768.                      *)
(***************************************************************************)
EXTENDS Integers, Sequences, FiniteSets, TLC

VARIABLES
    pc,            \* position in the request / in the function under check
    secrets,       \* st.secrets: "RAISES", "ABSENT" or the stored string
    env,           \* os.getenv("GOOGLE_API_KEY"): "NONE" or the string
    session,       \* st.session_state.user_api_key: "ABSENT" or the string
    api_key,       \* main's api_key: "NONE" or the string returned
    audio_bytes,   \* the recorded container handed to the request
    sample_rate,   \* load_audio_data's first result
    waveform,      \* load_audio_data's second result (an array)
    frequencies,   \* perform_fft_analysis's first result
    magnitude,     \* perform_fft_analysis's second result
    spectrum_fig,  \* what plot_spectrum drew
    bands,         \* low/high power, ratios, whether a division was made
    verdict,       \* which of st.success / st.warning / st.info was emitted
    spectrogram,   \* what plot_spectrogram drew
    tab1_error,    \* the exception tab1's except clause reported, or "NONE"
    ai,            \* the AI tab: calls made, what was sent, what was shown
    stages         \* the stages invoked (ran) and completed (ok) so far

vars == <<pc, secrets, env, session, api_key, audio_bytes, sample_rate,
          waveform, frequencies, magnitude, spectrum_fig, bands, verdict,
          spectrogram, tab1_error, ai, stages>>

-----------------------------------------------------------------------------
(* Bounds of the model.                                                    *)

MaxChannels == 2     \* channels of a drawn container: 1..MaxChannels
MaxFrames == 2       \* frames of a container drawn for load_audio_data
MaxShortLen == 3     \* short clips of a request: 0..MaxShortLen frames
MaxFftLen == 5       \* waveform lengths drawn for perform_fft_analysis
MaxMag == 4          \* magnitudes drawn for the band classification

-----------------------------------------------------------------------------
(* Exact rationals as mixed numbers [int, num, den]: int + num/den.        *)

RECURSIVE GCD(_, _)
GCD(a, b) == IF b = 0 THEN a ELSE GCD(b, a % b)

Mixed(i, n, d) ==
    LET r == n % d
        g == GCD(d, r)
    IN  [int |-> i + (n \div d), num |-> r \div g, den |-> d \div g]

RInt(v) == [int |-> v, num |-> 0, den |-> 1]
\* n / d for integers n and d > 0
RFrac(n, d) == Mixed(0, n, d)
RZero == RInt(0)

\* Fractions are brought to the least common denominator, never to the
\* product of the denominators, to stay within 32 bits.
RAdd(a, b) ==
    LET g == GCD(a.den, b.den)
    IN  Mixed(a.int + b.int,
              a.num * (b.den \div g) + b.num * (a.den \div g),
              (a.den \div g) * b.den)
RNeg(a) ==
    IF a.num = 0 THEN RInt(0 - a.int)
    ELSE [int |-> (0 - a.int) - 1, num |-> a.den - a.num, den |-> a.den]
RSub(a, b) == RAdd(a, RNeg(b))
RAbs(a) == IF a.int < 0 THEN RNeg(a) ELSE a
\* a / k and a * k for an integer k > 0
RDivInt(a, k) == Mixed(a.int \div k, (a.int % k) * a.den + a.num, a.den * k)
RMulInt(a, k) == Mixed(a.int * k, a.num * k, a.den)
\* a / b for a >= 0 and b > 0
RDiv(a, b) ==
    LET pa == a.int * a.den + a.num
        pb == b.int * b.den + b.num
        gp == GCD(pb, pa)
        gd == GCD(a.den, b.den)
    IN  Mixed(0, (pa \div gp) * (b.den \div gd), (pb \div gp) * (a.den \div gd))
RLeq(a, b) ==
    LET g == GCD(a.den, b.den)
    IN  \/ a.int < b.int
        \/ a.int = b.int /\ a.num * (b.den \div g) <= b.num * (a.den \div g)
RLt(a, b) == ~RLeq(b, a)
RIsZero(a) == a.int = 0 /\ a.num = 0

\* The sum of s[lo..hi], halving the range (a 1024-sample clip stays shallow).
RECURSIVE RSumRange(_, _, _)
RSumRange(s, lo, hi) ==
    IF lo > hi THEN RZero
    ELSE IF lo = hi THEN s[lo]
    ELSE LET mid == (lo + hi) \div 2
         IN  RAdd(RSumRange(s, lo, mid), RSumRange(s, mid + 1, hi))
RSum(s) == RSumRange(s, 1, Len(s))

-----------------------------------------------------------------------------
(* scipy.io.wavfile.read and numpy arrays, as load_audio_data uses them.   *)
(* A container is [kind, rate, dtype, channels, frames]; frames is a       *)
(* sequence of frames, each a sequence of one sample per channel.  kind    *)
(* "empty" is the empty byte string, "corrupt" bytes that are no RIFF/WAVE *)
(* file: wavfile.read raises on both.  An array is [dtype, ndim, data].    *)

IntDtypes == {"int16", "int32"}

\* wavfile.read: a 1-D array for one channel, a (frames x channels) array
\* for more; the header's rate as it stands.
WavfileRead(bytes) ==
    IF bytes.kind # "wav" THEN [ok |-> FALSE, error |-> "ValueError"]
    ELSE [ok |-> TRUE,
          rate |-> bytes.rate,
          data |-> IF bytes.channels = 1
                   THEN [dtype |-> bytes.dtype, ndim |-> 1,
                         data |-> [i \in 1..Len(bytes.frames) |-> bytes.frames[i][1]]]
                   ELSE [dtype |-> bytes.dtype, ndim |-> 2,
                         data |-> bytes.frames]]

\* ndarray.mean(axis=1): the mean of each frame; an integer array yields
\* float64, a float array keeps its dtype.  numpy sums in float64 and then
\* divides; the exact value is the same summing x/n, which stays in range.
MeanOfFrame(frame) ==
    RSum([c \in 1..Len(frame) |-> RDivInt(frame[c], Len(frame))])

MeanAxis1(arr) ==
    [dtype |-> IF arr.dtype \in IntDtypes THEN "float64" ELSE arr.dtype,
     ndim |-> 1,
     data |-> [i \in 1..Len(arr.data) |-> MeanOfFrame(arr.data[i])]]

\* 32768.0 (line 63) and 2147483648.0 = 32768 * 65536 (line 65); the second
\* is applied as its two factors, 2^31 being no 32-bit integer.
Int16Scale == 32768
Int32ScaleHi == 32768
Int32ScaleLo == 65536

\* audio_data.astype(np.float32) / scale
ScaleInt16(arr) ==
    [dtype |-> "float32", ndim |-> arr.ndim,
     data |-> [i \in 1..Len(arr.data) |-> RDivInt(arr.data[i], Int16Scale)]]
ScaleInt32(arr) ==
    [dtype |-> "float32", ndim |-> arr.ndim,
     data |-> [i \in 1..Len(arr.data) |->
                  RDivInt(RDivInt(arr.data[i], Int32ScaleHi), Int32ScaleLo)]]

\* lines 57-59: if len(audio_data.shape) > 1: audio_data = audio_data.mean(axis=1)
ToMono(arr) == IF arr.ndim > 1 THEN MeanAxis1(arr) ELSE arr

\* lines 61-65: the dtype tested is the dtype after the mean
Normalize(arr) ==
    IF arr.dtype = "int16" THEN ScaleInt16(arr)
    ELSE IF arr.dtype = "int32" THEN ScaleInt32(arr)
    ELSE arr

\* load_audio_data: [ok, rate, data] or [ok |-> FALSE, error]
LoadAudioData(bytes) ==
    LET r == WavfileRead(bytes)
    IN  IF ~r.ok THEN r
        ELSE [ok |-> TRUE, rate |-> r.rate, data |-> Normalize(ToMono(r.data))]

-----------------------------------------------------------------------------
(* perform_fft_analysis (lines 70-84).                                     *)

\* np.fft.fftfreq(n, d) orders the bins 0, 1, ..., (n-1)//2, -(n//2), ..., -1.
FftBin(n, i) == IF i - 1 <= (n - 1) \div 2 THEN i - 1 ELSE (i - 1) - n

\* np.fft.fftfreq(n, 1/sample_rate)[i] = bin * sample_rate / n
FftFreq(n, rate) == [i \in 1..n |-> RFrac(FftBin(n, i) * rate, n)]

\* The waveforms drawn are a constant level plus an impulse on the first
\* sample, x = (c + b, c, ..., c): their transform is exactly
\*   X_0 = sum of x = n*c + b,     X_k = b = x[1] - x[2]  (k # 0),
\* all real, so np.abs is the absolute value.  (A general transform has
\* irrational coefficients; this family keeps the arithmetic exact at every
\* length, 1024 included.)
IsLevelPlusImpulse(x) == \A j \in 2..Len(x) : x[j] = x[2]

\* np.fft.fft(x)[i], the coefficient of bin i-1 (bins above n/2 alias the
\* negative frequencies, in fftfreq's order)
Fft(x) ==
    [i \in 1..Len(x) |-> IF i = 1 THEN RSum(x) ELSE RSub(x[1], x[2])]

\* a[mask]: the entries of a where mask holds, in order
Masked(a, mask) ==
    LET kept == SelectSeq([i \in 1..Len(a) |-> i], LAMBDA i : mask[i])
    IN  [j \in 1..Len(kept) |-> a[kept[j]]]

\* Mutation of PositiveMask (sensitivity of C6): `> 0`, which drops DC.
PositiveMaskStrict(freqs) == [i \in 1..Len(freqs) |-> RLt(RZero, freqs[i])]

\* line 80: positive_mask = frequencies >= 0
PositiveMask(freqs) == [i \in 1..Len(freqs) |-> RLeq(RZero, freqs[i])]

\* np.fft.fft raises ValueError on an empty array; 1/sample_rate raises
\* ZeroDivisionError on a zero rate.
PerformFftAnalysis(rate, x) ==
    IF Len(x) = 0 THEN [ok |-> FALSE, error |-> "ValueError"]
    ELSE IF rate = 0 THEN [ok |-> FALSE, error |-> "ZeroDivisionError"]
    ELSE LET fft_result == Fft(x)
             freqs == FftFreq(Len(x), rate)
             positive_mask == PositiveMask(freqs)
             absolute == [i \in 1..Len(x) |-> RAbs(fft_result[i])]
         IN  [ok |-> TRUE,
              frequencies |-> Masked(freqs, positive_mask),
              magnitude |-> Masked(absolute, positive_mask)]

-----------------------------------------------------------------------------
(* plot_spectrum (lines 87-136): what is drawn.                            *)

PlotMaxFreq == 3000

RECURSIVE RMaxRange(_, _, _)
RMaxRange(s, lo, hi) ==
    IF lo = hi THEN s[lo]
    ELSE LET mid == (lo + hi) \div 2
             a == RMaxRange(s, lo, mid)
             b == RMaxRange(s, mid + 1, hi)
         IN  IF RLeq(a, b) THEN b ELSE a

\* lines 93-101; ndarray.max() raises ValueError on an empty array
PlotSpectrum(freqs, mags) ==
    LET mask == [i \in 1..Len(freqs) |-> RLeq(freqs[i], RInt(PlotMaxFreq))]
        freq_filtered == Masked(freqs, mask)
        mag_filtered == Masked(mags, mask)
    IN  IF Len(mag_filtered) = 0 THEN [ok |-> FALSE, error |-> "ValueError"]
        ELSE LET top == RMaxRange(mag_filtered, 1, Len(mag_filtered))
             IN  [ok |-> TRUE,
                  freq |-> freq_filtered,
                  mag |-> IF RLt(RZero, top)
                          THEN [i \in 1..Len(mag_filtered) |->
                                   RDiv(mag_filtered[i], top)]
                          ELSE mag_filtered]

-----------------------------------------------------------------------------
(* The band ratios and the verdict (main, lines 366-393).                  *)

LowBandMax == 500
HighBandMin == 1000
HighBandMax == 3000
NormalThreshold == 70
StenosisThreshold == 40
Percent == 100

\* line 368: (frequencies >= 0) & (frequencies <= 500)
LowFreqMask(freqs) ==
    [i \in 1..Len(freqs) |->
        RLeq(RZero, freqs[i]) /\ RLeq(freqs[i], RInt(LowBandMax))]
\* Mutation of HighFreqMask (sensitivity of C3): the high band starting at
\* the low band's edge, so that the 500-1000 Hz gap is counted.
HighFreqMaskFromLowEdge(freqs) ==
    [i \in 1..Len(freqs) |->
        RLeq(RInt(LowBandMax), freqs[i]) /\ RLeq(freqs[i], RInt(HighBandMax))]

\* line 369: (frequencies >= 1000) & (frequencies <= 3000)
HighFreqMask(freqs) ==
    [i \in 1..Len(freqs) |->
        RLeq(RInt(HighBandMin), freqs[i]) /\ RLeq(freqs[i], RInt(HighBandMax))]

\* lines 371-372: magnitude[mask].sum() if mask.any() else 0
BandPower(mags, mask) ==
    IF \E i \in 1..Len(mask) : mask[i] THEN RSum(Masked(mags, mask)) ELSE RZero

\* lines 374-379
BandRatios(freqs, mags) ==
    LET low_power == BandPower(mags, LowFreqMask(freqs))
        high_power == BandPower(mags, HighFreqMask(freqs))
        total_power == RAdd(low_power, high_power)
    IN  IF RLt(RZero, total_power)
        THEN [low_power |-> low_power, high_power |-> high_power,
              low_ratio |-> RMulInt(RDiv(low_power, total_power), Percent),
              high_ratio |-> RMulInt(RDiv(high_power, total_power), Percent),
              divided |-> TRUE]
        ELSE [low_power |-> low_power, high_power |-> high_power,
              low_ratio |-> RZero, high_ratio |-> RZero, divided |-> FALSE]

\* Mutation of Verdict (sensitivity of C4): `>=` at both thresholds.
VerdictInclusive(low_ratio, high_ratio) ==
    IF RLeq(RInt(NormalThreshold), low_ratio) THEN "NORMAL_LEANING"
    ELSE IF RLeq(RInt(StenosisThreshold), high_ratio) THEN "STENOSIS_LEANING"
    ELSE "MIXED"

\* lines 388-393: st.success / st.warning / st.info
Verdict(low_ratio, high_ratio) ==
    IF RLt(RInt(NormalThreshold), low_ratio) THEN "NORMAL_LEANING"
    ELSE IF RLt(RInt(StenosisThreshold), high_ratio) THEN "STENOSIS_LEANING"
    ELSE "MIXED"

-----------------------------------------------------------------------------
(* plot_spectrogram (lines 139-184): Axes.specgram with NFFT=1024 and      *)
(* noverlap=512.  specgram (matplotlib.mlab) zero-pads a signal shorter    *)
(* than NFFT up to NFFT ("Only one segment is calculated"), then takes one *)
(* window every NFFT - noverlap samples; segment i is centred on sample    *)
(* NFFT/2 + i*(NFFT - noverlap).  The code adds no length check of its     *)
(* own.  Intensities (10*log10 of the power) are not modelled.             *)

NFFT == 1024
Noverlap == 512

\* Mutation of SpecgramSegments (sensitivity of C5): no zero-padding, so a
\* clip shorter than one window yields no segment.
SpecgramSegmentsUnpadded(n) == (n - NFFT) \div (NFFT - Noverlap) + 1

SpecgramSegments(n) ==
    LET padded == IF n < NFFT THEN NFFT ELSE n
    IN  (padded - NFFT) \div (NFFT - Noverlap) + 1

PlotSpectrogram(rate, x) ==
    [ok |-> TRUE,
     times |-> [i \in 1..SpecgramSegments(Len(x)) |->
                   RFrac(NFFT \div 2 + (i - 1) * (NFFT - Noverlap), rate)],
     freq_bins |-> NFFT \div 2 + 1,
     samples_used |-> Len(x),
     rate |-> rate]

-----------------------------------------------------------------------------
(* get_api_key (lines 26-47).                                              *)

Placeholder == "DUMMY_API_KEY_REPLACE_ME"

\* Mutation of GetApiKey (sensitivity of C9): the placeholder accepted.
GetApiKeyPlaceholderAccepted(sec, environ, sess) ==
    IF sec \notin {"RAISES", "ABSENT"} THEN sec
    ELSE IF environ # "NONE" /\ environ # "" THEN environ
    ELSE IF sess # "ABSENT" /\ sess # "" THEN sess
    ELSE "NONE"

GetApiKey(sec, environ, sess) ==
    IF sec \notin {"RAISES", "ABSENT"} THEN sec
    ELSE IF environ # "NONE" /\ environ # "" /\ environ # Placeholder THEN environ
    ELSE IF sess # "ABSENT" /\ sess # "" THEN sess
    ELSE "NONE"

-----------------------------------------------------------------------------
(* analyze_with_gemini (lines 186-254): one generate_content call inside a *)
(* try whose except Exception returns the error text.  `outcome` is what   *)
(* the service does: "response" or "raises".                               *)

AnalyzeWithGemini(bytes, key, outcome) ==
    [sent |-> bytes,
     key |-> key,
     result |-> IF outcome = "response" THEN "response_text" ELSE "error_message",
     raised |-> FALSE]

-----------------------------------------------------------------------------
(* The inputs drawn.                                                       *)

Dtypes == {"int16", "int32", "float32"}

MinInt32 == (0 - 2147483647) - 1

\* Sample values a container of each encoding may hold.
SamplesOf(dtype) ==
    IF dtype = "int16" THEN {RInt(0 - 32768), RZero, RInt(1), RInt(32767)}
    ELSE IF dtype = "int32"
    THEN {RInt(MinInt32), RZero, RInt(65536), RInt(2147418112)}
    ELSE {RFrac(0 - 3, 2), RZero, RFrac(1, 2), RInt(1)}

NotWav(kind) ==
    [kind |-> kind, rate |-> 0, dtype |-> "none", channels |-> 0, frames |-> <<>>]
Wav(rate, dtype, channels, frames) ==
    [kind |-> "wav", rate |-> rate, dtype |-> dtype, channels |-> channels,
     frames |-> frames]

LoadRates == {8000, 44100}

LoadInputs ==
    {NotWav("empty"), NotWav("corrupt")} \cup
    UNION {UNION {UNION {{Wav(rate, dt, ch, fr) :
                             fr \in [1..n -> [1..ch -> SamplesOf(dt)]]} :
                         n \in 0..MaxFrames} :
                  ch \in 1..MaxChannels} :
           rate \in LoadRates, dt \in Dtypes}

\* Clips of a request: each channel a level plus an impulse on frame 1.
ShapesOf(dtype) ==
    IF dtype = "int16"
    THEN {<<RZero, RZero>>, <<RZero, RInt(32767)>>, <<RInt(1), RInt(0 - 3)>>}
    ELSE IF dtype = "int32"
    THEN {<<RZero, RZero>>, <<RZero, RInt(536870912)>>,
          <<RInt(65536), RInt(0 - 196608)>>}
    ELSE {<<RZero, RZero>>, <<RZero, RFrac(1, 2)>>, <<RFrac(1, 2), RFrac(0 - 3, 2)>>}

ClipFrames(n, shape) ==
    [i \in 1..n |->
        [c \in 1..Len(shape) |->
            IF i = 1 THEN RAdd(shape[c][1], shape[c][2]) ELSE shape[c][1]]]

\* With three samples the second bin falls in the low band, in the gap
\* between the bands, or in the high band.
RequestRates == {1200, 2400, 8000}

\* Clip lengths around one spectrogram window and around two.
LongLens == {NFFT - 1, NFFT, NFFT + (NFFT - Noverlap) - 1, NFFT + (NFFT - Noverlap)}

RequestInputs ==
    {NotWav("empty"), NotWav("corrupt")} \cup
    UNION {UNION {{Wav(rate, dt, ch, ClipFrames(n, shape)) :
                      shape \in [1..ch -> ShapesOf(dt)]} :
                  ch \in 1..MaxChannels, n \in 0..MaxShortLen} :
           rate \in RequestRates, dt \in Dtypes} \cup
    {Wav(8000, "int16", 1, ClipFrames(n, <<shape>>)) :
        n \in LongLens, shape \in ShapesOf("int16") \ {<<RZero, RZero>>}}

\* Where a key may be stored, for get_api_key on its own.
KeyStrings == {"", "key-a", "key-b"}
SecretStates == {"RAISES", "ABSENT"} \cup KeyStrings
EnvStates == {"NONE", Placeholder} \cup KeyStrings
SessionStates == {"ABSENT"} \cup KeyStrings

\* <<secrets, env, session>> of a request: one per way get_api_key ends.
RequestKeys ==
    {<<"key-a", "key-b", "">>,          \* the secrets value
     <<"", "key-b", "key-a">>,          \* an empty secrets value
     <<"ABSENT", "key-b", "key-a">>,    \* the environment value
     <<"RAISES", Placeholder, "key-a">>, \* the session value
     <<"RAISES", "", "ABSENT">>}        \* None

\* Waveforms and rates drawn for perform_fft_analysis on its own.
FftRates == {0, 3, 8000, 44100}
FftLevels == {RZero, RFrac(1, 2), RInt(0 - 1)}
FftImpulses == {RZero, RInt(1), RFrac(0 - 3, 2)}
FftWaveforms ==
    {[dtype |-> "float32", ndim |-> 1,
      data |-> [i \in 1..n |-> IF i = 1 THEN RAdd(c, b) ELSE c]] :
        n \in 0..MaxFftLen, c \in FftLevels, b \in FftImpulses}

\* <<sample_rate, n>> of the spectra drawn for the band classification:
\* their bins fall on and around the band edges 500, 1000 and 3000 Hz.
BandGrids == {<<8000, 2>>, <<8000, 3>>, <<3000, 4>>, <<12000, 4>>,
              <<14000, 4>>, <<6000, 12>>}

-----------------------------------------------------------------------------
(* The state before anything ran.                                          *)

NoBytes == NotWav("nothing")
NoArray == [dtype |-> "none", ndim |-> 0, data |-> <<>>]
NoBands == [low_power |-> RZero, high_power |-> RZero, low_ratio |-> RZero,
            high_ratio |-> RZero, divided |-> FALSE]
NoFigure == [ok |-> FALSE, freq |-> <<>>, mag |-> <<>>]
NoSpectrogram == [ok |-> FALSE, times |-> <<>>, freq_bins |-> 0,
                  samples_used |-> 0, rate |-> 0]
NoAi == [calls |-> 0, sent |-> NoBytes, key |-> "NONE", result |-> "NONE",
         raised |-> FALSE]
NoStages == [ran |-> {}, ok |-> {}]

Blank ==
    /\ api_key = "NONE"
    /\ audio_bytes = NoBytes
    /\ sample_rate = 0
    /\ waveform = NoArray
    /\ frequencies = <<>>
    /\ magnitude = <<>>
    /\ spectrum_fig = NoFigure
    /\ bands = NoBands
    /\ verdict = "NONE"
    /\ spectrogram = NoSpectrogram
    /\ tab1_error = "NONE"
    /\ ai = NoAi
    /\ stages = NoStages

Ran(stage) == stage \in stages.ran
Ok(stage) == stage \in stages.ok
Invoke(stage, succeeded) ==
    [ran |-> stages.ran \cup {stage},
     ok |-> IF succeeded THEN stages.ok \cup {stage} ELSE stages.ok]

-----------------------------------------------------------------------------
(* main (lines 257-433): one analysis request.                             *)

\* line 327
GetApiKeyStep ==
    /\ pc = "start"
    /\ api_key' = GetApiKey(secrets, env, session)
    /\ pc' = "idle"
    /\ UNCHANGED <<secrets, env, session, audio_bytes, sample_rate, waveform,
                   frequencies, magnitude, spectrum_fig, bands, verdict,
                   spectrogram, tab1_error, ai, stages>>

\* lines 343-351: a clip was recorded and the button pressed
ClickAnalyze ==
    /\ pc = "idle"
    /\ \E b \in RequestInputs : audio_bytes' = b
    /\ pc' = "load"
    /\ UNCHANGED <<secrets, env, session, api_key, sample_rate, waveform,
                   frequencies, magnitude, spectrum_fig, bands, verdict,
                   spectrogram, tab1_error, ai, stages>>

\* line 360, inside tab1's try (an exception goes to line 404-405)
LoadStep ==
    /\ pc = "load"
    /\ LET r == LoadAudioData(audio_bytes)
       IN  /\ stages' = Invoke("load", r.ok)
           /\ IF r.ok
              THEN /\ sample_rate' = r.rate
                   /\ waveform' = r.data
                   /\ pc' = "fft"
                   /\ UNCHANGED tab1_error
              ELSE /\ tab1_error' = r.error
                   /\ pc' = "tab2"
                   /\ UNCHANGED <<sample_rate, waveform>>
    /\ UNCHANGED <<secrets, env, session, api_key, audio_bytes, frequencies,
                   magnitude, spectrum_fig, bands, verdict, spectrogram, ai>>

\* line 361
FftStep ==
    /\ pc = "fft"
    /\ LET r == PerformFftAnalysis(sample_rate, waveform.data)
       IN  /\ stages' = Invoke("fft", r.ok)
           /\ IF r.ok
              THEN /\ frequencies' = r.frequencies
                   /\ magnitude' = r.magnitude
                   /\ pc' = "plot_spectrum"
                   /\ UNCHANGED tab1_error
              ELSE /\ tab1_error' = r.error
                   /\ pc' = "tab2"
                   /\ UNCHANGED <<frequencies, magnitude>>
    /\ UNCHANGED <<secrets, env, session, api_key, audio_bytes, sample_rate,
                   waveform, spectrum_fig, bands, verdict, spectrogram, ai>>

\* lines 362-364
PlotSpectrumStep ==
    /\ pc = "plot_spectrum"
    /\ LET r == PlotSpectrum(frequencies, magnitude)
       IN  /\ stages' = Invoke("plot_spectrum", r.ok)
           /\ IF r.ok
              THEN /\ spectrum_fig' = r
                   /\ pc' = "classify"
                   /\ UNCHANGED tab1_error
              ELSE /\ tab1_error' = r.error
                   /\ pc' = "tab2"
                   /\ UNCHANGED spectrum_fig
    /\ UNCHANGED <<secrets, env, session, api_key, audio_bytes, sample_rate,
                   waveform, frequencies, magnitude, bands, verdict,
                   spectrogram, ai>>

\* lines 366-393
ClassifyStep ==
    /\ pc = "classify"
    /\ LET r == BandRatios(frequencies, magnitude)
       IN  /\ bands' = r
           /\ verdict' = Verdict(r.low_ratio, r.high_ratio)
    /\ stages' = Invoke("classify", TRUE)
    /\ pc' = "spectrogram"
    /\ UNCHANGED <<secrets, env, session, api_key, audio_bytes, sample_rate,
                   waveform, frequencies, magnitude, spectrum_fig, spectrogram,
                   tab1_error, ai>>

\* lines 395-402
SpectrogramStep ==
    /\ pc = "spectrogram"
    /\ spectrogram' = PlotSpectrogram(sample_rate, waveform.data)
    /\ stages' = Invoke("spectrogram", TRUE)
    /\ pc' = "tab2"
    /\ UNCHANGED <<secrets, env, session, api_key, audio_bytes, sample_rate,
                   waveform, frequencies, magnitude, spectrum_fig, bands,
                   verdict, tab1_error, ai>>

\* Mutation of KeyMissing (sensitivity of C10): `api_key is None`.
KeyMissingNoneOnly(key) == key = "NONE"

\* line 409: `not api_key` is true of None and of ""
KeyMissing(key) == key \in {"NONE", ""}

\* lines 407-415
Tab2Step ==
    /\ pc = "tab2"
    /\ IF KeyMissing(api_key)
       THEN /\ ai' = [ai EXCEPT !.result = "warning"]
            /\ UNCHANGED stages
       ELSE \E outcome \in {"response", "raises"} :
               LET r == AnalyzeWithGemini(audio_bytes, api_key, outcome)
               IN  /\ ai' = [calls |-> ai.calls + 1, sent |-> r.sent,
                             key |-> r.key, result |-> r.result,
                             raised |-> r.raised]
                   /\ stages' = Invoke("ai", ~r.raised)
    /\ pc' = "done"
    /\ UNCHANGED <<secrets, env, session, api_key, audio_bytes, sample_rate,
                   waveform, frequencies, magnitude, spectrum_fig, bands,
                   verdict, spectrogram, tab1_error>>

Init ==
    /\ pc = "start"
    /\ \E k \in RequestKeys : secrets = k[1] /\ env = k[2] /\ session = k[3]
    /\ Blank

Next ==
    \/ GetApiKeyStep
    \/ ClickAnalyze
    \/ LoadStep
    \/ FftStep
    \/ PlotSpectrumStep
    \/ ClassifyStep
    \/ SpectrogramStep
    \/ Tab2Step

Spec == Init /\ [][Next]_vars

-----------------------------------------------------------------------------
(* The functions on their own, over wider inputs.                          *)

NoKeys == secrets = "ABSENT" /\ env = "NONE" /\ session = "ABSENT"

\* get_api_key over every combination of the three stores
InitKey ==
    /\ pc = "start"
    /\ secrets \in SecretStates
    /\ env \in EnvStates
    /\ session \in SessionStates
    /\ Blank
NextKey == GetApiKeyStep
SpecKey == InitKey /\ [][NextKey]_vars

\* load_audio_data over every small container
InitLoad ==
    /\ pc = "load"
    /\ NoKeys
    /\ api_key = "NONE"
    /\ audio_bytes \in LoadInputs
    /\ sample_rate = 0
    /\ waveform = NoArray
    /\ frequencies = <<>>
    /\ magnitude = <<>>
    /\ spectrum_fig = NoFigure
    /\ bands = NoBands
    /\ verdict = "NONE"
    /\ spectrogram = NoSpectrogram
    /\ tab1_error = "NONE"
    /\ ai = NoAi
    /\ stages = NoStages
NextLoad == LoadStep
SpecLoad == InitLoad /\ [][NextLoad]_vars

\* perform_fft_analysis over short waveforms of every length
InitFFT ==
    /\ pc = "fft"
    /\ NoKeys
    /\ api_key = "NONE"
    /\ audio_bytes = NoBytes
    /\ sample_rate \in FftRates
    /\ waveform \in FftWaveforms
    /\ frequencies = <<>>
    /\ magnitude = <<>>
    /\ spectrum_fig = NoFigure
    /\ bands = NoBands
    /\ verdict = "NONE"
    /\ spectrogram = NoSpectrogram
    /\ tab1_error = "NONE"
    /\ ai = NoAi
    /\ stages = [ran |-> {"load"}, ok |-> {"load"}]
NextFFT == FftStep
SpecFFT == InitFFT /\ [][NextFFT]_vars

\* the band classification over spectra with every magnitude 0..MaxMag
InitBand ==
    /\ pc = "classify"
    /\ NoKeys
    /\ api_key = "NONE"
    /\ audio_bytes = NoBytes
    /\ sample_rate = 0
    /\ waveform = NoArray
    /\ \E g \in BandGrids :
          LET f == FftFreq(g[2], g[1])
          IN  /\ frequencies = Masked(f, PositiveMask(f))
              /\ magnitude \in [1..Len(frequencies) -> {RInt(m) : m \in 0..MaxMag}]
    /\ spectrum_fig = NoFigure
    /\ bands = NoBands
    /\ verdict = "NONE"
    /\ spectrogram = NoSpectrogram
    /\ tab1_error = "NONE"
    /\ ai = NoAi
    /\ stages = [ran |-> {"load", "fft", "plot_spectrum"},
                 ok |-> {"load", "fft", "plot_spectrum"}]
NextBand == ClassifyStep
SpecBand == InitBand /\ [][NextBand]_vars

-----------------------------------------------------------------------------
(* Properties.                                                             *)

InUnitRange(v) == RLeq(RInt(0 - 1), v) /\ RLeq(v, RInt(1))

\* A two-channel container whose left and right channels are identical,
\* and the one-channel container holding that channel.
IsTwinStereo(bytes) ==
    /\ bytes.kind = "wav"
    /\ bytes.channels = 2
    /\ \A i \in 1..Len(bytes.frames) : bytes.frames[i][1] = bytes.frames[i][2]
MonoOf(bytes) ==
    Wav(bytes.rate, bytes.dtype, 1,
        [i \in 1..Len(bytes.frames) |-> <<bytes.frames[i][1]>>])

\* C1: for every encoding, load_audio_data on a two-channel input with
\* identical channels returns the Waveform (rate and sample values) that it
\* returns on the mono input holding that channel.
C1_TwinStereoLoadsAsMono ==
    (Ran("load") /\ IsTwinStereo(audio_bytes)) =>
        LET mono == LoadAudioData(MonoOf(audio_bytes))
        IN  /\ Ok("load")
            /\ mono.ok
            /\ sample_rate = mono.rate
            /\ waveform.data = mono.data.data

\* The value the claim C2 gives sample i: the channel mean, divided by 32768
\* (int16) or by 2147483648 (int32), and as it is for float input.
ExpectedSample(bytes, i) ==
    LET mean == MeanOfFrame(bytes.frames[i])
    IN  IF bytes.dtype = "int16" THEN RDivInt(mean, 32768)
        ELSE IF bytes.dtype = "int32" THEN RDivInt(RDivInt(mean, 32768), 65536)
        ELSE mean

\* C2: for int16 and int32 input with any number of channels every sample
\* returned by load_audio_data lies in [-1, 1], being the channel mean
\* divided by 32768 resp. 2147483648; float input is returned undivided.
C2_IntegerInputNormalized ==
    Ok("load") =>
        /\ Len(waveform.data) = Len(audio_bytes.frames)
        /\ \A i \in 1..Len(waveform.data) :
              /\ waveform.data[i] = ExpectedSample(audio_bytes, i)
              /\ audio_bytes.dtype \in IntDtypes => InUnitRange(waveform.data[i])

\* The sum of the magnitudes whose frequency lies in [lo, hi].
PowerIn(freqs, mags, lo, hi) ==
    RSum([i \in 1..Len(freqs) |->
             IF RLeq(RInt(lo), freqs[i]) /\ RLeq(freqs[i], RInt(hi))
             THEN mags[i] ELSE RZero])

\* C3: with low_power the magnitudes in [0, 500] Hz and high_power those in
\* [1000, 3000] Hz: if their total is positive the ratios are
\* 100*low_power/total and 100*high_power/total, lie in [0, 100] and add up
\* to 100; if it is zero both ratios are 0 and nothing is divided.
C3_RatiosAddUpTo100 ==
    Ran("classify") =>
        LET low == PowerIn(frequencies, magnitude, 0, 500)
            high == PowerIn(frequencies, magnitude, 1000, 3000)
            total == RAdd(low, high)
        IN  /\ bands.low_power = low
            /\ bands.high_power = high
            /\ total.num = 0
            /\ IF total.int > 0
               THEN /\ bands.divided
                    /\ RMulInt(bands.low_ratio, total.int) = RMulInt(low, 100)
                    /\ RMulInt(bands.high_ratio, total.int) = RMulInt(high, 100)
                    /\ RAdd(bands.low_ratio, bands.high_ratio) = RInt(100)
                    /\ RLeq(RZero, bands.low_ratio) /\ RLeq(bands.low_ratio, RInt(100))
                    /\ RLeq(RZero, bands.high_ratio) /\ RLeq(bands.high_ratio, RInt(100))
               ELSE /\ ~bands.divided
                    /\ bands.low_ratio = RZero
                    /\ bands.high_ratio = RZero

\* C3 witness: a spectrum with energy in both bands was classified.
C3_Witness ==
    /\ Ran("classify")
    /\ RLt(RZero, bands.low_power)
    /\ RLt(RZero, bands.high_power)
    /\ bands.low_ratio = RInt(25)

\* C4: exactly one verdict, by first match: low_ratio > 70 NORMAL_LEANING,
\* else high_ratio > 40 STENOSIS_LEANING, else MIXED; low_ratio = 70 and
\* high_ratio = 40 do not trigger their rule; zero energy gives MIXED.
C4_VerdictByFirstMatch ==
    Ran("classify") =>
        LET low_gt == RLt(RInt(70), bands.low_ratio)
            high_gt == RLt(RInt(40), bands.high_ratio)
        IN  /\ verdict \in {"NORMAL_LEANING", "STENOSIS_LEANING", "MIXED"}
            /\ (verdict = "NORMAL_LEANING") = low_gt
            /\ (verdict = "STENOSIS_LEANING") = (~low_gt /\ high_gt)
            /\ (verdict = "MIXED") = (~low_gt /\ ~high_gt)
            /\ bands.low_ratio = RInt(70) => verdict # "NORMAL_LEANING"
            /\ bands.high_ratio = RInt(40) => verdict # "STENOSIS_LEANING"
            /\ (RIsZero(bands.low_ratio) /\ RIsZero(bands.high_ratio)) =>
                   verdict = "MIXED"

\* C4 witness: a spectrum whose low band holds exactly 70 % was classified.
C4_Witness ==
    /\ Ran("classify")
    /\ bands.low_ratio = RInt(70)
    /\ verdict = "MIXED"

C6_SpectrumAligned ==
    Ok("fft") =>
        LET n == Len(waveform.data)
            X == Fft(waveform.data)
        IN  /\ n >= 1 /\ sample_rate > 0
            /\ Len(frequencies) = Len(magnitude)
            /\ Len(frequencies) = (n - 1) \div 2 + 1
            /\ frequencies[1] = RZero
            /\ \A i \in 1..Len(frequencies) : RLeq(RZero, frequencies[i])
            /\ \A i \in 1..(Len(frequencies) - 1) :
                  RLeq(frequencies[i], frequencies[i + 1])
            /\ \A i \in 1..Len(frequencies) :
                  \E k \in 0..(n - 1) :
                     /\ frequencies[i] = RFrac(k * sample_rate, n)
                     /\ magnitude[i] = RAbs(X[k + 1])

\* C6 witness: a spectrum with a DC bin and a different second bin.
C6_Witness ==
    /\ Ok("fft")
    /\ Len(waveform.data) = 5
    /\ Len(frequencies) = 3
    /\ magnitude[1] # magnitude[2]
    /\ RLt(RZero, magnitude[2])

\* C7: load_audio_data never returns zero samples or a non-positive rate;
\* on the empty byte string and on a container with a zero-length payload
\* it fails, returns nothing, and no numeric stage runs after it.
C7_EmptyInputRejected ==
    /\ Ok("load") => Len(waveform.data) > 0 /\ sample_rate > 0
    /\ (/\ Ran("load")
        /\ \/ audio_bytes.kind = "empty"
           \/ audio_bytes.kind = "wav" /\ Len(audio_bytes.frames) = 0) =>
           /\ ~Ok("load")
           /\ waveform = NoArray
           /\ stages.ran \cap {"fft", "plot_spectrum", "classify", "spectrogram"} = {}

\* C8: in every request in which load_audio_data succeeds the spectrogram
\* is built from the loaded (sample_rate, samples), whether or not the
\* FFT, the spectrum display or the classification succeeded.
C8_SpectrogramIndependent ==
    (pc = "done" /\ Ok("load")) =>
        /\ Ok("spectrogram")
        /\ spectrogram.ok
        /\ spectrogram.samples_used = Len(waveform.data)
        /\ spectrogram.rate = sample_rate

\* C9: get_api_key returns the secrets value whenever the secrets store
\* holds the key; else (also when reading the store fails) the environment
\* value if non-empty and not the placeholder; else the session value if
\* non-empty; else None.
C9_KeyPriority ==
    pc # "start" =>
        LET in_secrets == secrets \notin {"RAISES", "ABSENT"}
            env_usable == env \notin {"NONE", "", "DUMMY_API_KEY_REPLACE_ME"}
            session_usable == session \notin {"ABSENT", ""}
        IN  /\ in_secrets => api_key = secrets
            /\ (~in_secrets /\ env_usable) => api_key = env
            /\ (~in_secrets /\ ~env_usable /\ session_usable) => api_key = session
            /\ (~in_secrets /\ ~env_usable /\ ~session_usable) => api_key = "NONE"

\* C9 witness: reading the secrets store failed, the environment held only
\* the placeholder, and the session key was returned.
C9_Witness ==
    /\ pc # "start"
    /\ secrets = "RAISES"
    /\ env = "DUMMY_API_KEY_REPLACE_ME"
    /\ session = "key-b"
    /\ api_key = "key-b"

\* C10: the AI stage runs iff a (non-empty) key was resolved, whether or not
\* the numeric stage failed; it is sent the recorded bytes unmodified; it
\* never raises, returning a response or an error message; it is called at
\* most once per request.
C10_AiStageGuarded ==
    /\ ai.calls <= 1
    /\ ~ai.raised
    /\ pc = "done" =>
          /\ Ran("ai") = (api_key \notin {"NONE", ""})
          /\ Ran("ai") =>
                /\ ai.calls = 1
                /\ ai.sent = audio_bytes
                /\ ai.key = api_key
                /\ ai.result \in {"response_text", "error_message"}
          /\ ~Ran("ai") => ai.calls = 0 /\ ai.result = "warning"

\* C10 witness: the numeric stage failed and the AI stage still ran, its
\* own failure coming back as an error message.
C10_Witness ==
    /\ pc = "done"
    /\ tab1_error # "NONE"
    /\ Ran("ai")
    /\ ai.result = "error_message"
    /\ ai.sent = audio_bytes

====
